---- MODULE Spec2Model ----
(***************************************************************************)
(* WHOIS-Tool (src/main.py): the WhoisResult record and its to_dict        *)
(* conversion, the WhoisTool session store with its memoized worker-thread *)
(* lookup and its JSON / CSV exports, and the interactive loop main().     *)
(***************************************************************************)
EXTENDS Integers, Sequences, FiniteSets, TLC

(***************************************************************************)
(* Bounds of the model.                                                    *)
(***************************************************************************)
\* Lookups the user asks for in one run (choice "1").
MaxLookups == 3
\* Exports the user asks for in one run (choices "2" and "3").
MaxExports == 2
\* Capacity of the memoization cache.  The source sets 128 (main.py:54);
\* the model scales it down so that filling and eviction are reachable, and
\* every formula about the cache is stated relative to this capacity.
maxsize == 1

\* ThreadPoolExecutor(max_workers=5), main.py:39.
max_workers == 5

\* Domain strings the user can type (after .strip(), main.py:149); the
\* code validates nothing, so the empty string is one of them.  One more
\* than the cache holds, so that the least recently used entry is evicted.
Domains == {"example.com", ""}

\* File names the user can type for an export (main.py:153, 156).
Paths == {"out/results.json", "results.csv"}

(***************************************************************************)
(* Python values of the optional fields of WhoisResult (main.py:23-31):    *)
(* None, a str, a list of str, a datetime, a list of datetime.  One shape  *)
(* for all: t the type, s the strings, n the datetimes                     *)
(* <<year, month, day, hour, minute, second>>.                             *)
(***************************************************************************)
PyNone == [t |-> "none", s |-> <<>>, n |-> <<>>]
PyStr(x) == [t |-> "str", s |-> <<x>>, n |-> <<>>]
PyStrList(xs) == [t |-> "list", s |-> xs, n |-> <<>>]
PyDatetime(d) == [t |-> "datetime", s |-> <<>>, n |-> <<d>>]
PyDatetimeList(ds) == [t |-> "dtlist", s |-> <<>>, n |-> ds]

\* The fields of the dataclass in declaration order (main.py:23-31).
Fields ==
    << "domain", "registrar", "whois_server", "creation_date",
       "expiration_date", "updated_date", "status", "name_servers", "emails" >>

\* WhoisResult(domain=domain, registrar=data.registrar, ...), main.py:60-70.
WhoisResult(domain, data) ==
    [f \in {Fields[i] : i \in 1..Len(Fields)} |->
        IF f = "domain" THEN PyStr(domain) ELSE data[f]]

(***************************************************************************)
(* str() and repr() of those values, as Python computes them.              *)
(***************************************************************************)
Digit(d) == <<"0", "1", "2", "3", "4", "5", "6", "7", "8", "9">>[d + 1]

RECURSIVE IntStr(_)
IntStr(k) == IF k < 10 THEN Digit(k) ELSE IntStr(k \div 10) \o Digit(k % 10)

\* Zero-padded decimal of width w (datetime.__str__ pads every component).
RECURSIVE Pad(_, _)
Pad(k, w) == IF w <= 1 THEN IntStr(k) ELSE
             IF k < 10 THEN "0" \o Pad(k, w - 1)
             ELSE Pad(k \div 10, w - 1) \o Digit(k % 10)

\* str(datetime): "YYYY-MM-DD HH:MM:SS" (no microseconds, no tzinfo).
DatetimeStr(d) ==
    Pad(d[1], 4) \o "-" \o Pad(d[2], 2) \o "-" \o Pad(d[3], 2) \o " " \o
    Pad(d[4], 2) \o ":" \o Pad(d[5], 2) \o ":" \o Pad(d[6], 2)

\* repr(datetime): the seconds are left out when they are zero.
DatetimeRepr(d) ==
    "datetime.datetime(" \o IntStr(d[1]) \o ", " \o IntStr(d[2]) \o ", " \o
    IntStr(d[3]) \o ", " \o IntStr(d[4]) \o ", " \o IntStr(d[5]) \o
    (IF d[6] = 0 THEN "" ELSE ", " \o IntStr(d[6])) \o ")"

\* repr(str) of a string without quotes or escapes.
StrRepr(x) == "'" \o x \o "'"

RECURSIVE JoinStrRepr(_)
JoinStrRepr(xs) ==
    IF xs = <<>> THEN ""
    ELSE IF Len(xs) = 1 THEN StrRepr(xs[1])
    ELSE StrRepr(xs[1]) \o ", " \o JoinStrRepr(Tail(xs))

RECURSIVE JoinDatetimeRepr(_)
JoinDatetimeRepr(ds) ==
    IF ds = <<>> THEN ""
    ELSE IF Len(ds) = 1 THEN DatetimeRepr(ds[1])
    ELSE DatetimeRepr(ds[1]) \o ", " \o JoinDatetimeRepr(Tail(ds))

\* str(v) for a value that is not None.
Str(v) ==
    CASE v.t = "str" -> v.s[1]
      [] v.t = "list" -> "[" \o JoinStrRepr(v.s) \o "]"
      [] v.t = "datetime" -> DatetimeStr(v.n[1])
      [] v.t = "dtlist" -> "[" \o JoinDatetimeRepr(v.n) \o "]"
      [] OTHER -> "None"

\* An exported value: a string, or None / JSON null.
Null == [isNull |-> TRUE, str |-> ""]
Text(x) == [isNull |-> FALSE, str |-> x]

\* The conversion with the None test left out: None becomes the text "None".
StrAlways(v) == Text(Str(v))

\* `str(v) if v is not None else None`, main.py:34.
StrOrNone(v) == IF v.t = "none" THEN Null ELSE Text(Str(v))

\* WhoisResult.to_dict: the ordered dict of the fields, every value
\* stringified or None (main.py:33-34).
to_dict(r) ==
    [i \in 1..Len(Fields) |-> [k |-> Fields[i], v |-> StrOrNone(r[Fields[i]])]]

(***************************************************************************)
(* The external WHOIS collaborator, whois.whois (main.py:58): an opaque    *)
(* query that returns the parsed fields of some registry answer or raises. *)
(***************************************************************************)
NoData == [f \in {Fields[i] : i \in 2..Len(Fields)} |-> PyNone]

\* Answers the collaborator can give; the first is the example scenario.
Registry ==
    { [NoData EXCEPT !["registrar"] = PyStr("IANA"),
                     !["status"] = PyStrList(<<"active">>)],
      [NoData EXCEPT !["whois_server"] = PyStr("whois.iana.org"),
                     !["creation_date"] = PyDatetime(<<1995, 8, 14, 4, 0, 0>>),
                     !["updated_date"] =
                         PyDatetimeList(<< <<2024, 8, 14, 7, 1, 34>>,
                                           <<2023, 8, 14, 7, 1, 0>> >>),
                     !["name_servers"] =
                         PyStrList(<<"a.iana-servers.net", "b.iana-servers.net">>),
                     !["emails"] = PyStr("abuse@iana.org")] }

\* What one invocation of the collaborator does: return an answer or raise.
Raises == [raised |-> TRUE, data |-> NoData]
Answers(data) == [raised |-> FALSE, data |-> data]
Outcomes == {Raises} \cup {Answers(data) : data \in Registry}

\* Optional[WhoisResult]: None or a record.
None == [some |-> FALSE, rec |-> WhoisResult("", NoData)]
Some(r) == [some |-> TRUE, rec |-> r]

(***************************************************************************)
(* Files.  A file is absent, holds what it held before the run ("old"), is *)
(* empty (created or truncated by open('w')), holds a partly written       *)
(* export, or holds a complete JSON or CSV export, kept in parsed form:    *)
(* the array of objects, or the rows of cells.                             *)
(***************************************************************************)
File(kind) == [kind |-> kind, json |-> <<>>, csv |-> <<>>]

\* json.dump([r.to_dict() for r in self.results], ...), main.py:97-102.
JsonDump(rs) ==
    [kind |-> "json", json |-> [i \in 1..Len(rs) |-> to_dict(rs[i])], csv |-> <<>>]

\* dict.keys() of an ordered dict.
Keys(d) == [i \in 1..Len(d) |-> d[i].k]

\* d.get(key, ''): csv.DictWriter's restval is ''.
Get(d, key) ==
    IF \E i \in 1..Len(d) : d[i].k = key
    THEN (d[CHOOSE i \in 1..Len(d) : d[i].k = key]).v
    ELSE Text("")

\* The csv writer writes None as the empty string.
CsvCell(v) == IF v.isNull THEN "" ELSE v.str

\* DictWriter._dict_to_list: the row's cells in fieldnames order.
DictRow(fieldnames, d) ==
    [i \in 1..Len(fieldnames) |-> CsvCell(Get(d, fieldnames[i]))]

\* The CSV export with writer.writeheader() left out.
CsvDumpNoHeader(rs) ==
    LET fieldnames == Keys(to_dict(rs[1]))
    IN  [kind |-> "csv", json |-> <<>>,
         csv |-> [i \in 1..Len(rs) |-> DictRow(fieldnames, to_dict(rs[i]))]]

\* writer.writeheader(); writer.writerows(...), main.py:116-118.
CsvDump(rs) ==
    LET fieldnames == Keys(to_dict(rs[1]))
    IN  [kind |-> "csv", json |-> <<>>,
         csv |-> <<fieldnames>> \o
                 [i \in 1..Len(rs) |-> DictRow(fieldnames, to_dict(rs[i]))]]

\* Path(filename).parent: the directory that mkdir creates, main.py:95, 111.
Parent(p) == IF p = "out/results.json" THEN "out" ELSE "."

\* What the file system lets an export do: everything, or fail in mkdir, in
\* open (before the file is touched), or in a write (after open truncated it).
IoOutcomes == {"ok", "mkdir", "open", "write"}

(***************************************************************************)
(* State.                                                                  *)
(***************************************************************************)
VARIABLES
    pc,        \* main(): "menu" at the prompt, "awaiting" the lookup, "done"
    results,   \* WhoisTool.results
    cache,     \* the lru_cache of _perform_whois_sync, least recent first
    queue,     \* the executor's work queue: domains to look up
    workers,   \* the executor's threads, each at a place of the memoized call
    future,    \* the future main() awaits
    fs,        \* the files at the paths an export can name
    dirs,      \* the directories mkdir has created
    msg,       \* what main() printed last
    lookups,   \* lookups asked for so far
    exports,   \* exports asked for so far
    domain,    \* the domain of the lookup asked for last
    result,    \* what that lookup returned to main(), once it has
    calls,     \* invocations of the collaborator, per domain
    okCalls,   \* invocations of the collaborator that returned an answer
    first,     \* per domain, what its first lookup returned
    returned,  \* the records the lookups returned to main(), in call order
    snap       \* the cache and the counters when the last lookup was asked for

vars == << pc, results, cache, queue, workers, future, fs, dirs, msg, lookups,
           exports, domain, result, calls, okCalls, first, returned, snap >>

Idle == [st |-> "idle", domain |-> "", ret |-> None]
NoFuture == [state |-> "none", val |-> None]
NotYet == [known |-> FALSE, val |-> None]
Known(v) == [known |-> TRUE, val |-> v]

NoSnap == [cache |-> <<>>, calls |-> 0, results |-> <<>>]

CacheHas(c, key) == \E i \in 1..Len(c) : c[i].key = key
CacheGet(c, key) == (c[CHOOSE i \in 1..Len(c) : c[i].key = key]).val
Without(c, key) == SelectSeq(c, LAMBDA e : e.key # key)

\* A hit makes the entry the most recently used (functools.lru_cache).
CacheTouch(c, key) == Append(Without(c, key), [key |-> key, val |-> CacheGet(c, key)])

\* A cache that never keeps what it is given.
CachePutNothing(c, key, val) == c

\* Storing the result of a miss: nothing if the key got in meanwhile, the
\* least recently used entry makes room when the cache is full.
CachePut(c, key, val) ==
    IF CacheHas(c, key) THEN c
    ELSE IF Len(c) >= maxsize THEN Append(Tail(c), [key |-> key, val |-> val])
    ELSE Append(c, [key |-> key, val |-> val])

Busy == {w \in 1..max_workers : workers[w].st # "idle"}

\* Before the run one of the paths holds a file, the other does not exist.
InitialFiles ==
    [p \in Paths |-> IF p = "results.csv" THEN File("old") ELSE File("absent")]

Init ==
    /\ pc = "menu"
    /\ results = <<>>
    /\ cache = <<>>
    /\ queue = <<>>
    /\ workers = [w \in 1..max_workers |-> Idle]
    /\ future = NoFuture
    /\ fs = InitialFiles
    /\ dirs = {"."}
    /\ msg = ""
    /\ lookups = 0
    /\ exports = 0
    /\ domain = ""
    /\ result = NotYet
    /\ calls = [d \in Domains |-> 0]
    /\ okCalls = 0
    /\ first = [d \in Domains |-> NotYet]
    /\ returned = <<>>
    /\ snap = NoSnap

(***************************************************************************)
(* The lookup dispatched without being awaited (as with create_task): the  *)
(* loop is back at the prompt while the worker runs.                       *)
(***************************************************************************)
LookupStartNoAwait(d) ==
    /\ pc = "menu"
    /\ lookups < MaxLookups
    /\ queue' = Append(queue, d)
    /\ future' = [state |-> "pending", val |-> None]
    /\ lookups' = lookups + 1
    /\ domain' = d
    /\ result' = NotYet
    /\ snap' = [cache |-> cache, calls |-> calls[d], results |-> results]
    /\ UNCHANGED << pc, results, cache, workers, fs, dirs, msg, exports, calls,
                    okCalls, first, returned >>

(***************************************************************************)
(* Choice "1": main() reads the domain and awaits perform_whois_async,     *)
(* which hands _perform_whois_sync to the executor (main.py:148-150,       *)
(* 43-48).                                                                 *)
(***************************************************************************)
LookupStart(d) ==
    /\ pc = "menu"
    /\ lookups < MaxLookups
    /\ pc' = "awaiting"
    /\ queue' = Append(queue, d)
    /\ future' = [state |-> "pending", val |-> None]
    /\ lookups' = lookups + 1
    /\ domain' = d
    /\ result' = NotYet
    /\ snap' = [cache |-> cache, calls |-> calls[d], results |-> results]
    /\ UNCHANGED << results, cache, workers, fs, dirs, msg, exports, calls,
                    okCalls, first, returned >>

\* An idle thread of the pool takes the next work item.
WorkerTake(w) ==
    /\ queue # <<>>
    /\ workers[w].st = "idle"
    /\ \A v \in 1..max_workers : workers[v].st = "idle" => w <= v
    /\ workers' = [workers EXCEPT ![w] = [st |-> "wrapper", domain |-> Head(queue),
                                          ret |-> None]]
    /\ queue' = Tail(queue)
    /\ UNCHANGED << pc, results, cache, future, fs, dirs, msg, lookups, exports, domain,
                    result, calls, okCalls, first, returned, snap >>

\* The lru_cache wrapper (main.py:54): a hit returns the cached value without
\* running the function, a miss runs it.
WorkerCacheLookup(w) ==
    /\ workers[w].st = "wrapper"
    /\ IF CacheHas(cache, workers[w].domain)
       THEN /\ cache' = CacheTouch(cache, workers[w].domain)
            /\ workers' = [workers EXCEPT ![w] = Idle]
            /\ future' = [state |-> "result",
                          val |-> CacheGet(cache, workers[w].domain)]
       ELSE /\ workers' = [workers EXCEPT ![w].st = "call"]
            /\ UNCHANGED << cache, future >>
    /\ UNCHANGED << pc, results, queue, fs, dirs, msg, lookups, exports, domain, result,
                    calls, okCalls, first, returned, snap >>

\* The body with the append moved in front of the collaborator's answer being
\* used: a record is stored even when the collaborator raised.
WorkerBodyAppendsOnFailure(w, out) ==
    /\ workers[w].st = "call"
    /\ calls' = [calls EXCEPT ![workers[w].domain] = @ + 1]
    /\ results' = Append(results, WhoisResult(workers[w].domain, out.data))
    /\ IF out.raised
       THEN /\ workers' = [workers EXCEPT ![w].st = "store", ![w].ret = None]
            /\ UNCHANGED okCalls
       ELSE /\ okCalls' = okCalls + 1
            /\ workers' = [workers EXCEPT ![w].st = "store",
                             ![w].ret = Some(WhoisResult(workers[w].domain, out.data))]
    /\ UNCHANGED << pc, cache, queue, future, fs, dirs, msg, lookups, exports,
                    domain, result, first, returned, snap >>

\* The body of _perform_whois_sync (main.py:56-77): the collaborator answers
\* and the record is built, appended and returned, or it raises and the
\* handler returns None.
WorkerBody(w, out) ==
    /\ workers[w].st = "call"
    /\ calls' = [calls EXCEPT ![workers[w].domain] = @ + 1]
    /\ IF out.raised
       THEN /\ workers' = [workers EXCEPT ![w].st = "store", ![w].ret = None]
            /\ UNCHANGED << results, okCalls >>
       ELSE LET r == WhoisResult(workers[w].domain, out.data)
            IN  /\ results' = Append(results, r)
                /\ okCalls' = okCalls + 1
                /\ workers' = [workers EXCEPT ![w].st = "store", ![w].ret = Some(r)]
    /\ UNCHANGED << pc, cache, queue, future, fs, dirs, msg, lookups, exports, domain,
                    result, first, returned, snap >>

\* A wrapper that memoizes records only and forgets failures.
WorkerCacheStoreSkipsNone(w) ==
    /\ workers[w].st = "store"
    /\ cache' = IF workers[w].ret.some
                THEN CachePut(cache, workers[w].domain, workers[w].ret)
                ELSE cache
    /\ future' = [state |-> "result", val |-> workers[w].ret]
    /\ workers' = [workers EXCEPT ![w] = Idle]
    /\ UNCHANGED << pc, results, queue, fs, dirs, msg, lookups, exports, domain,
                    result, calls, okCalls, first, returned, snap >>

\* The wrapper stores what the function returned, None included, and the
\* executor sets the future's result.
WorkerCacheStore(w) ==
    /\ workers[w].st = "store"
    /\ cache' = CachePut(cache, workers[w].domain, workers[w].ret)
    /\ future' = [state |-> "result", val |-> workers[w].ret]
    /\ workers' = [workers EXCEPT ![w] = Idle]
    /\ UNCHANGED << pc, results, queue, fs, dirs, msg, lookups, exports, domain, result,
                    calls, okCalls, first, returned, snap >>

\* perform_whois_async returns the future's result, or None if awaiting it
\* raised (main.py:49-52); main() displays it (main.py:151, 79-90).
LookupReturn ==
    /\ pc = "awaiting"
    /\ future.state \in {"result", "exception"}
    /\ LET r == IF future.state = "result" THEN future.val ELSE None
       IN  /\ result' = Known(r)
           /\ msg' = IF r.some THEN "WHOIS Results" ELSE "[!] No results available."
           /\ first' = IF first[domain].known THEN first
                       ELSE [first EXCEPT ![domain] = Known(r)]
           /\ returned' = IF r.some THEN Append(returned, r.rec) ELSE returned
    /\ pc' = "menu"
    /\ future' = NoFuture
    /\ UNCHANGED << results, cache, queue, workers, fs, dirs, lookups, exports, domain,
                    calls, okCalls, snap >>

(***************************************************************************)
(* Choices "2" and "3": the exports (main.py:152-157, 92-122).  An export  *)
(* that raises logs and re-raises; main() reports it at `except Exception` *)
(* (main.py:167-169) and goes round the loop again.                        *)
(***************************************************************************)
Reported(e) == "An error occurred: " \o e

\* Whether the export raises: the file system fails it, or (CSV) the store
\* is empty (main.py:113-114).
JsonRaises(io) == io # "ok"
CsvRaises(io) == io # "ok" \/ results = <<>>

\* A JSON export that empties the store once the file is written.
export_to_json_clearing(p, io) ==
    /\ dirs' = IF io = "mkdir" THEN dirs ELSE dirs \cup {Parent(p)}
    /\ fs' = CASE io \in {"mkdir", "open"} -> fs
               [] io = "write" -> [fs EXCEPT ![p] = File("partial")]
               [] OTHER -> [fs EXCEPT ![p] = JsonDump(results)]
    /\ msg' = IF io = "ok" THEN msg ELSE Reported("OSError")
    /\ results' = IF io = "ok" THEN <<>> ELSE results

export_to_json(p, io) ==
    /\ dirs' = IF io = "mkdir" THEN dirs ELSE dirs \cup {Parent(p)}
    /\ fs' = CASE io \in {"mkdir", "open"} -> fs
               [] io = "write" -> [fs EXCEPT ![p] = File("partial")]
               [] OTHER -> [fs EXCEPT ![p] = JsonDump(results)]
    /\ msg' = IF io = "ok" THEN msg ELSE Reported("OSError")
    /\ UNCHANGED results

export_to_csv(p, io) ==
    /\ dirs' = IF io = "mkdir" THEN dirs ELSE dirs \cup {Parent(p)}
    /\ fs' = CASE io \in {"mkdir", "open"} -> fs
               [] results = <<>> -> [fs EXCEPT ![p] = File("empty")]
               [] io = "write" -> [fs EXCEPT ![p] = File("partial")]
               [] OTHER -> [fs EXCEPT ![p] = CsvDump(results)]
    /\ msg' = CASE io \in {"mkdir", "open"} -> Reported("OSError")
                [] results = <<>> -> Reported("No results to export")
                [] io = "write" -> Reported("OSError")
                [] OTHER -> msg
    /\ UNCHANGED results

ExportJson(p, io) ==
    /\ pc = "menu"
    /\ exports < MaxExports
    /\ exports' = exports + 1
    /\ export_to_json(p, io)
    /\ UNCHANGED << pc, cache, queue, workers, future, lookups, domain, result,
                    calls, okCalls, first, returned, snap >>

\* main() without its `except Exception`: an export that raises ends the loop.
ExportCsvUncaught(p, io) ==
    /\ pc = "menu"
    /\ exports < MaxExports
    /\ exports' = exports + 1
    /\ export_to_csv(p, io)
    /\ pc' = IF CsvRaises(io) THEN "done" ELSE pc
    /\ UNCHANGED << cache, queue, workers, future, lookups, domain, result,
                    calls, okCalls, first, returned, snap >>

ExportCsv(p, io) ==
    /\ pc = "menu"
    /\ exports < MaxExports
    /\ exports' = exports + 1
    /\ export_to_csv(p, io)
    /\ UNCHANGED << pc, cache, queue, workers, future, lookups, domain, result,
                    calls, okCalls, first, returned, snap >>

\* Any other choice (main.py:161-162).
InvalidChoice ==
    /\ pc = "menu"
    /\ msg' = "Invalid choice. Please try again."
    /\ UNCHANGED << pc, results, cache, queue, workers, future, fs, dirs, lookups,
                    exports, domain, result, calls, okCalls, first, returned, snap >>

\* input() raises EOFError, an Exception: reported, and the loop goes on
\* (main.py:146, 167-169).
InputEOF ==
    /\ pc = "menu"
    /\ msg' = Reported("EOF when reading a line")
    /\ UNCHANGED << pc, results, cache, queue, workers, future, fs, dirs, lookups,
                    exports, domain, result, calls, okCalls, first, returned, snap >>

\* Choice "4" (main.py:158-160).
Quit ==
    /\ pc = "menu"
    /\ pc' = "done"
    /\ msg' = "Thank you for using WHOIS Tool. Goodbye!"
    /\ UNCHANGED << results, cache, queue, workers, future, fs, dirs, lookups,
                    exports, domain, result, calls, okCalls, first, returned, snap >>

\* Ctrl-C.  At the prompt input() raises KeyboardInterrupt, which the loop
\* reports before it breaks (main.py:164-166); while the lookup is awaited
\* the interrupt ends main() at the await, and the worker thread, which
\* nothing cancels, runs on.
Interrupt ==
    /\ pc \in {"menu", "awaiting"}
    /\ pc' = "done"
    /\ msg' = IF pc = "menu" THEN "Operation cancelled by user." ELSE msg
    /\ UNCHANGED << results, cache, queue, workers, future, fs, dirs, lookups,
                    exports, domain, result, calls, okCalls, first, returned, snap >>

Next ==
    \/ \E d \in Domains : LookupStart(d)
    \/ \E w \in 1..max_workers : WorkerTake(w)
    \/ \E w \in 1..max_workers : WorkerCacheLookup(w)
    \/ \E w \in 1..max_workers, out \in Outcomes : WorkerBody(w, out)
    \/ \E w \in 1..max_workers : WorkerCacheStore(w)
    \/ LookupReturn
    \/ \E p \in Paths, io \in IoOutcomes : ExportJson(p, io)
    \/ \E p \in Paths, io \in IoOutcomes : ExportCsv(p, io)
    \/ InvalidChoice
    \/ InputEOF
    \/ Quit
    \/ Interrupt

Spec == Init /\ [][Next]_vars

(***************************************************************************)
(* Properties.                                                             *)
(***************************************************************************)
\* The domains a lookup has been asked for so far.
Looked == {d \in Domains : first[d].known} \cup (IF lookups > 0 THEN {domain} ELSE {})

\* Work handed to the executor and not finished: queued or on a thread.
InFlight == Len(queue) + Cardinality(Busy)

\* The last lookup found a memoized failure when it was asked for.
HadCachedFailure ==
    /\ CacheHas(snap.cache, domain)
    /\ ~ CacheGet(snap.cache, domain).some

\* C1: after N lookups that each returned a record, repeated domains
\* included, the store holds exactly N records, the i-th being the record
\* the i-th such lookup returned.
C1_StoreHoldsEveryReturnedRecord ==
    pc = "menu" => results = returned

\* C2: a lookup of D returns to main() a record whose domain is D or None,
\* never an error of the collaborator, and a lookup that returned None has
\* appended nothing to the store.
C2_LookupReturnsRecordOrNone ==
    /\ future.state # "exception"
    /\ (pc = "menu" /\ lookups > 0) => result.known
    /\ result.known =>
          IF result.val.some
          THEN result.val.rec["domain"] = PyStr(domain)
          ELSE result.val = None /\ results = snap.results

C2_Witness ==
    /\ result.known
    /\ ~ result.val.some
    /\ calls[domain] > snap.calls
    /\ results # <<>>

\* C3: export_to_csv on an empty store reports "No results to export" and
\* leaves every path as it was: nothing created, nothing truncated.
C3_EmptyCsvExportWritesNoFile ==
    (exports = 1 /\ msg = Reported("No results to export")) => fs = InitialFiles

\* C4: while no more distinct domains have been looked up than the cache
\* holds, the collaborator is invoked at most once per domain and every
\* lookup of a domain returns what the first lookup of it returned.
C4_RepeatedLookupServedFromCache ==
    Cardinality(Looked) <= maxsize =>
        /\ \A d \in Domains : calls[d] <= 1
        /\ (result.known /\ first[domain].known) => result.val = first[domain].val

C4_Witness ==
    /\ Cardinality(Looked) <= maxsize
    /\ lookups >= 2
    /\ result.known
    /\ result.val.some
    /\ calls[domain] = 1
    /\ snap.calls = 1

\* C5: a JSON export that succeeds writes one object per stored record, in
\* store order, with every field name as a key in declaration order and as
\* value the field's text, or null where the field is None; the store is
\* left as it was.
C5_JsonExportMirrorsStore ==
    [][\A p \in Paths :
          ExportJson(p, "ok") =>
              /\ results' = results
              /\ fs'[p].kind = "json"
              /\ Len(fs'[p].json) = Len(results)
              /\ \A i \in 1..Len(results) :
                    /\ fs'[p].json[i] = to_dict(results[i])
                    /\ Keys(fs'[p].json[i]) = Fields
                    /\ \A j \in 1..Len(Fields) :
                          fs'[p].json[i][j].v.isNull <=> results[i][Fields[j]] = PyNone
                    /\ fs'[p].json[i][1].v = Text(results[i]["domain"].s[1])]_vars

C5_Witness ==
    \E p \in Paths :
        /\ fs[p].kind = "json"
        /\ Len(fs[p].json) >= 2
        /\ Len(fs[p].json) = Len(results)

\* C6: a CSV export of a non-empty store that succeeds writes the header,
\* the field names in declaration order, then one row per stored record in
\* store order: store size + 1 rows.
C6_CsvExportHeaderAndRows ==
    [][\A p \in Paths :
          (ExportCsv(p, "ok") /\ results # <<>>) =>
              /\ fs'[p].kind = "csv"
              /\ Len(fs'[p].csv) = Len(results) + 1
              /\ fs'[p].csv[1] = Fields
              /\ \A i \in 1..Len(results) :
                    /\ Len(fs'[p].csv[i + 1]) = Len(Fields)
                    /\ fs'[p].csv[i + 1][1] = results[i]["domain"].s[1]]_vars

C6_Witness ==
    \E p \in Paths :
        /\ fs[p].kind = "csv"
        /\ Len(fs[p].csv) >= 3
        /\ Len(fs[p].csv) = Len(results) + 1

\* C7: a failed lookup, an export that raises (I/O error or empty store)
\* and an invalid choice each print a message and leave the loop at the
\* prompt with the store as it was; the loop ends only by choice "4" or by
\* an interrupt.
C7_FailuresReportedLoopGoesOn ==
    [][/\ (pc # "done" /\ pc' = "done") => (Quit \/ Interrupt)
       /\ (LookupReturn /\ ~ result'.val.some) =>
              /\ pc' = "menu"
              /\ msg' = "[!] No results available."
              /\ results' = results
       /\ \A p \in Paths, io \in IoOutcomes :
              ((ExportJson(p, io) /\ JsonRaises(io)) \/ (ExportCsv(p, io) /\ CsvRaises(io)))
              => /\ pc' = "menu"
                 /\ msg' \in {Reported("OSError"), Reported("No results to export")}
                 /\ results' = results
       /\ InvalidChoice =>
              /\ pc' = "menu"
              /\ msg' = "Invalid choice. Please try again."
              /\ results' = results]_vars

C7_Witness ==
    /\ pc = "menu"
    /\ msg = Reported("OSError")
    /\ exports = MaxExports
    /\ results # <<>>
    /\ \E d \in Domains : calls[d] >= 1 /\ CacheHas(cache, d) /\ ~ CacheGet(cache, d).some

\* C8: at most one lookup is in flight, and none while the loop is at the
\* prompt, where the next lookup or an export would start.
C8_OneLookupInFlight ==
    /\ InFlight <= 1
    /\ pc = "menu" => InFlight = 0

C8_Witness ==
    /\ pc = "awaiting"
    /\ \E w \in 1..max_workers : workers[w].st = "store" /\ workers[w].ret.some
    /\ Len(results) >= 2

\* C9: a failure is memoized: the lookup that returned None leaves None in
\* the cache for its domain, and a lookup that finds None in the cache
\* returns None without invoking the collaborator.
C9_FailureMemoized ==
    /\ \A i \in 1..Len(cache) : ~ cache[i].val.some => calls[cache[i].key] >= 1
    /\ (result.known /\ ~ result.val.some) =>
          /\ CacheHas(cache, domain)
          /\ CacheGet(cache, domain) = None
    /\ (result.known /\ HadCachedFailure) =>
          /\ result.val = None
          /\ calls[domain] = snap.calls

C9_Witness ==
    /\ result.known
    /\ HadCachedFailure
    /\ lookups >= 2
    /\ calls[domain] = 1

\* C10: the store holds as many records as the collaborator has answered
\* invocations; a step either leaves the store as it is or appends one
\* record for one answered invocation.
C10_StoreCountsAnsweredInvocations ==
    /\ [](Len(results) = okCalls)
    /\ [][\/ results' = results /\ okCalls' = okCalls
          \/ /\ okCalls' = okCalls + 1
             /\ Len(results') = Len(results) + 1
             /\ SubSeq(results', 1, Len(results)) = results]_vars

C10_Witness ==
    /\ Len(results) = 2
    /\ okCalls = 2
    /\ exports >= 1
    /\ \E d \in Domains : calls[d] >= 2
    /\ lookups = MaxLookups
    /\ pc = "menu"

====
